---- MODULE Spec2Model ----
(***************************************************************************)
(* Model of the cint crate: the width-tracked integer `Dynamic` (a u8      *)
(* magnitude `val` and a u8 width `bits`), its operators, the free         *)
(* function `replicate`, and the bitmask decode of tests/decode_bit_masks. *)
(*                                                                         *)
(* A Rust panic (a failed assert!, ilog2 of zero, a remainder by zero, an  *)
(* arithmetic or shift overflow in a build with overflow checks) is the    *)
(* result Panic.  Whether overflow checks are on is a property of the      *)
(* build (on in dev/test profiles, off in release): the variable           *)
(* overflow_checks; with checks off the arithmetic wraps and a shift       *)
(* amount is masked to the operand's width, as rustc defines it.           *)
(***************************************************************************)
EXTENDS Integers, FiniteSets, Sequences, TLC

VARIABLES
    overflow_checks, \* the build: TRUE when arithmetic overflow panics
    self,            \* receiver of the last call (NoValue for a constructor)
    op,              \* name of the last call
    arg,             \* argument of the last call
    ret,             \* what the last call returned
    pc,              \* position in decode_bitmask
    dec              \* locals of decode_bitmask

vars == <<overflow_checks, self, op, arg, ret, pc, dec>>

\* ------------------------------------------------------------- bounds
\* Largest width / count argument passed to new, truncate, ones,
\* sign_extend and zero_extend (the code takes any u8).
MaxArg == 9
\* Largest rotation amount passed to rotate_right.
MaxAmount == 16
\* Largest repeat count passed to replicate.
MaxCount == 10
\* Largest magnitude of the right-hand operand of &, | and -.
MaxRhsVal == 63

\* ---------------------------------------------------- machine integers
U8 == 0..255

Pow2(n) == 2 ^ n

\* u8 & u8
RECURSIVE And8(_, _)
And8(a, b) ==
    IF a = 0 \/ b = 0 THEN 0
    ELSE (a % 2) * (b % 2) + 2 * And8(a \div 2, b \div 2)

\* u8 | u8
RECURSIVE Or8(_, _)
Or8(a, b) ==
    IF a = 0 THEN b
    ELSE IF b = 0 THEN a
    ELSE (IF a % 2 = 1 \/ b % 2 = 1 THEN 1 ELSE 0) + 2 * Or8(a \div 2, b \div 2)

\* u8 ^ u8
RECURSIVE Xor8(_, _)
Xor8(a, b) ==
    IF a = 0 THEN b
    ELSE IF b = 0 THEN a
    ELSE ((a + b) % 2) + 2 * Xor8(a \div 2, b \div 2)

\* !u8
Not8(a) == 255 - a

\* u8::wrapping_sub
wrapping_sub(a, b) == (a - b + 256) % 256

\* number of significant bits of a u8: 8 - leading_zeros
RECURSIVE BitLen(_)
BitLen(a) == IF a = 0 THEN 0 ELSE 1 + BitLen(a \div 2)

leading_zeros(a) == 8 - BitLen(a)

\* u8::ilog2 of a non-zero value
ilog2(a) == BitLen(a) - 1

\* u8 << s and u8 >> s for an amount already below 8 (bits above 7 are lost)
Shl8(a, s) == (a * Pow2(s)) % 256
Shr8(a, s) == a \div Pow2(s)

\* ------------------------------------------------------------- values
\* The outcome of a call: a Dynamic, a raw u8, a raw i8, a u64 or a panic.
\* A u64 is the set of its set bit positions (0..63).
Panic == [kind |-> "panic", val |-> 0, bits |-> 0, word |-> {}]
Dyn(v, b) == [kind |-> "dyn", val |-> v, bits |-> b, word |-> {}]
Raw(n) == [kind |-> "u8", val |-> n, bits |-> 0, word |-> {}]
Word(w) == [kind |-> "u64", val |-> 0, bits |-> 0, word |-> w]
IsDyn(r) == r.kind = "dyn"

\* a Dynamic as the pair the struct holds
D(v, b) == [val |-> v, bits |-> b]
Of(r) == [val |-> r.val, bits |-> r.bits]

\* ------------------------------------------------------------ Dynamic
\* new without the check of the magnitude against the width
new_unchecked(val, bits) ==
    IF ~(bits \in 1..8) THEN Panic ELSE Dyn(val, bits)

\* Dynamic::new
new(val, bits) ==
    IF ~(bits \in 1..8) THEN Panic
    ELSE IF ~(8 - leading_zeros(val) <= bits) THEN Panic
    ELSE Dyn(val, bits)

\* impl BitAnd for Dynamic
bitand(lhs, rhs) ==
    Dyn(And8(lhs.val, rhs.val), IF lhs.bits <= rhs.bits THEN lhs.bits ELSE rhs.bits)

\* impl BitAnd<u8> for Dynamic
bitand_u8(lhs, rhs) == Dyn(And8(lhs.val, rhs), lhs.bits)

\* | with the width policy of &
bitor_min(lhs, rhs) ==
    Dyn(Or8(lhs.val, rhs.val), IF lhs.bits <= rhs.bits THEN lhs.bits ELSE rhs.bits)

\* impl BitOr for Dynamic
bitor(lhs, rhs) ==
    Dyn(Or8(lhs.val, rhs.val), IF lhs.bits >= rhs.bits THEN lhs.bits ELSE rhs.bits)

\* ones with the shift done in u8 instead of u16
ones_u8(count) ==
    IF count >= 8 /\ overflow_checks THEN Panic
    ELSE new(wrapping_sub(Shl8(1, count % 8), 1), count)

\* Dynamic::ones; 1u16 << count overflows for count >= 16
ones(count) ==
    IF count >= 16 /\ overflow_checks THEN Panic
    ELSE new(((Pow2(count % 16) % 65536) - 1) % 256, count)

\* Dynamic::truncate
truncate(val, bits) ==
    LET o == ones(bits)
    IN  IF ~IsDyn(o) THEN Panic ELSE bitand_u8(o, val)

\* impl Not for Dynamic
not(v) == truncate(Not8(v.val), v.bits)

\* impl Sub for Dynamic
sub(lhs, rhs) ==
    IF ~(lhs.bits = rhs.bits) THEN Panic
    ELSE truncate(wrapping_sub(lhs.val, rhs.val), lhs.bits)

\* Dynamic::sign_extend; self.bits - 1, the shift and the subtraction are
\* plain u8 arithmetic
sign_extend(v, new_bits) ==
    IF ~(new_bits \in 1..8) THEN Panic
    ELSE IF ~(v.bits <= new_bits) THEN Panic
    ELSE IF v.bits < 1 /\ overflow_checks THEN Panic
    ELSE LET sh == (v.bits + 255) % 256
         IN  IF sh >= 8 /\ overflow_checks THEN Panic
             ELSE LET sign_bit_mask == Shl8(1, sh % 8)
                      flipped == Xor8(v.val, sign_bit_mask)
                  IN  IF flipped < sign_bit_mask /\ overflow_checks THEN Panic
                      ELSE truncate(wrapping_sub(flipped, sign_bit_mask), new_bits)

\* Dynamic::zero_extend
zero_extend(v, new_bits) ==
    IF ~(v.bits <= new_bits) THEN Panic
    ELSE Dyn(v.val, new_bits)

\* concat shifting by the width of the left operand
concat_swapped(lhs, rhs) ==
    IF lhs.bits >= 8 /\ overflow_checks THEN Panic
    ELSE IF lhs.bits + rhs.bits > 255 /\ overflow_checks THEN Panic
    ELSE new(Or8(Shl8(lhs.val, lhs.bits % 8), rhs.val), (lhs.bits + rhs.bits) % 256)

\* Dynamic::concat
concat(lhs, rhs) ==
    IF rhs.bits >= 8 /\ overflow_checks THEN Panic
    ELSE IF lhs.bits + rhs.bits > 255 /\ overflow_checks THEN Panic
    ELSE new(Or8(Shl8(lhs.val, rhs.bits % 8), rhs.val), (lhs.bits + rhs.bits) % 256)

\* highest_set_bit as the count of significant bits
highest_set_bit_len(v) == IF v.val = 0 THEN Panic ELSE Raw(BitLen(v.val))

\* Dynamic::highest_set_bit
highest_set_bit(v) == IF v.val = 0 THEN Panic ELSE Raw(ilog2(v.val))

\* rotate_right rotating the whole backing byte
rotate_right_byte(v, amount) ==
    IF v.bits = 0 THEN Panic
    ELSE LET len == amount % v.bits
             left_shift == (8 - len) % 8
         IN  IF len >= 8 /\ overflow_checks THEN Panic
             ELSE truncate(Or8(Shr8(v.val, len % 8), Shl8(v.val, left_shift)), v.bits)

\* Dynamic::rotate_right
rotate_right(v, amount) ==
    IF v.bits = 0 THEN Panic
    ELSE LET len == amount % v.bits
             left_shift == (v.bits - len) % 8
         IN  IF len >= 8 /\ overflow_checks THEN Panic
             ELSE truncate(Or8(Shr8(v.val, len % 8), Shl8(v.val, left_shift)), v.bits)

\* impl From<Dynamic> for u8
u8_from(v) == Raw(v.val)

\* impl From<Dynamic> for i8
i8_from(v) ==
    LET e == sign_extend(v, 8)
    IN  IF ~IsDyn(e) THEN Panic
        ELSE [kind |-> "i8", val |-> IF e.val >= 128 THEN e.val - 256 ELSE e.val,
              bits |-> 0, word |-> {}]

\* ---------------------------------------------------------- replicate
\* u64::from(u8)
BitsOf(n) == {i \in 0..7 : (n \div Pow2(i)) % 2 = 1}

\* u64 << s for an amount already below 64
Shl64(w, s) == {i + s : i \in {j \in w : j + s <= 63}}

\* the loop of replicate: n iterations of val |= val << shift
RECURSIVE replicate_loop(_, _, _)
replicate_loop(val, shift, n) ==
    IF n = 0 THEN Word(val)
    ELSE IF shift >= 64 /\ overflow_checks THEN Panic
    ELSE replicate_loop(val \cup Shl64(val, shift % 64), shift, n - 1)

\* replicate with the loop over 0..count
replicate_once_more(val, count) == replicate_loop(BitsOf(val.val), val.bits, count)

\* replicate; the range 1..count has count - 1 elements, none for count < 2
replicate(val, count) ==
    replicate_loop(BitsOf(val.val), val.bits, IF count >= 1 THEN count - 1 ELSE 0)

\* ------------------------------------------------- calls of the library
NoValue == D(0, 0)
Nothing == [kind |-> "none", val |-> 0, bits |-> 0, word |-> {}]

\* What new followed by zero_extend can build: the right-hand operands.
Operands ==
    LET made == {new(v, w) : v \in U8, w \in 1..MaxArg}
        valid == {Of(r) : r \in {x \in made : IsDyn(x)}}
        ext == {zero_extend(x, n) : x \in valid, n \in 1..MaxArg}
    IN  {Of(r) : r \in {x \in ext : IsDyn(x)}}

\* The right-hand operands of &, | and -.
SmallOperands == {x \in Operands : x.val <= MaxRhsVal}

\* A call: `self` is the value in the caller's hand (the receiver of a
\* method; a constructor is called with nothing in hand), and op, arg, ret
\* record the call until the caller takes the result (Keep).
Idle == pc = "api" /\ op = "idle"

Call(name, recv, a, r) ==
    /\ self' = recv
    /\ op' = name
    /\ arg' = a
    /\ ret' = r
    /\ UNCHANGED <<overflow_checks, pc, dec>>

\* The caller binds the result.  Dynamic is Copy, so a call that panicked
\* (under catch_unwind) or returned a raw integer leaves the receiver in hand.
Keep ==
    /\ pc = "api"
    /\ op # "idle"
    /\ self' = IF IsDyn(ret) THEN Of(ret) ELSE self
    /\ op' = "idle"
    /\ arg' = NoValue
    /\ ret' = Nothing
    /\ UNCHANGED <<overflow_checks, pc, dec>>

\* The value in hand goes out of scope.
Drop ==
    /\ Idle /\ self # NoValue
    /\ self' = NoValue
    /\ UNCHANGED <<overflow_checks, op, arg, ret, pc, dec>>

New ==
    Idle /\ self = NoValue /\ \E v \in U8, w \in 0..MaxArg : Call("new", NoValue, D(v, w), new(v, w))

Truncate ==
    /\ Idle /\ self = NoValue
    /\ \E v \in U8, w \in 0..MaxArg : Call("truncate", NoValue, D(v, w), truncate(v, w))

Ones == Idle /\ self = NoValue /\ \E c \in 0..MaxArg : Call("ones", NoValue, D(0, c), ones(c))

Not == Idle /\ self # NoValue /\ Call("not", self, NoValue, not(self))

BitAnd ==
    /\ Idle /\ self # NoValue
    /\ \E rhs \in SmallOperands : Call("bitand", self, rhs, bitand(self, rhs))

BitAndU8 ==
    /\ Idle /\ self # NoValue
    /\ \E rhs \in U8 : Call("bitand_u8", self, D(rhs, 0), bitand_u8(self, rhs))

BitOr ==
    /\ Idle /\ self # NoValue
    /\ \E rhs \in SmallOperands : Call("bitor", self, rhs, bitor(self, rhs))

Sub ==
    /\ Idle /\ self # NoValue
    /\ \E rhs \in SmallOperands : Call("sub", self, rhs, sub(self, rhs))

SignExtend ==
    /\ Idle /\ self # NoValue
    /\ \E n \in 0..MaxArg : Call("sign_extend", self, D(0, n), sign_extend(self, n))

ZeroExtend ==
    /\ Idle /\ self # NoValue
    /\ \E n \in 0..MaxArg : Call("zero_extend", self, D(0, n), zero_extend(self, n))

Concat ==
    /\ Idle /\ self # NoValue
    /\ \E rhs \in Operands : Call("concat", self, rhs, concat(self, rhs))

HighestSetBit ==
    Idle /\ self # NoValue /\ Call("highest_set_bit", self, NoValue, highest_set_bit(self))

RotateRight ==
    /\ Idle /\ self # NoValue
    /\ \E a \in 0..MaxAmount : Call("rotate_right", self, D(a, 0), rotate_right(self, a))

IntoI8 == Idle /\ self # NoValue /\ Call("i8_from", self, NoValue, i8_from(self))

Replicate ==
    /\ Idle /\ self # NoValue
    /\ \E c \in 0..MaxCount : Call("replicate", self, D(c, 0), replicate(self, c))

Init ==
    /\ overflow_checks \in BOOLEAN
    /\ self = NoValue
    /\ op = "idle"
    /\ arg = NoValue
    /\ ret = Nothing
    /\ pc = "api"
    /\ dec = <<>>

Next ==
    \/ New
    \/ Truncate
    \/ Ones
    \/ Not
    \/ BitAnd
    \/ BitAndU8
    \/ BitOr
    \/ Sub
    \/ SignExtend
    \/ ZeroExtend
    \/ Concat
    \/ HighestSetBit
    \/ RotateRight
    \/ IntoI8
    \/ Replicate
    \/ Keep
    \/ Drop

Spec == Init /\ [][Next]_vars

\* ------------------------------------- decode_bitmask (the decode test)
\* Register sizes the decode is run with.
RegSizes == {32, 64}

Fail == [dec EXCEPT !.failed = TRUE]

\* the entry asserts, len and the two asserts on it
DecodeLen ==
    /\ pc = "len"
    /\ LET c == concat(dec.imm_n, Of(not(dec.imms)))
           h == IF IsDyn(c) THEN highest_set_bit(c) ELSE Panic
       IN  IF \/ dec.imm_n.bits # 1 \/ dec.imms.bits # 6 \/ dec.immr.bits # 6
              \/ ~IsDyn(not(dec.imms))
              \/ h.kind # "u8"
           THEN pc' = "panicked" /\ dec' = Fail
           ELSE IF ~(h.val >= 1) \/ ~(dec.m >= Shl8(1, h.val))
           THEN pc' = "panicked" /\ dec' = [Fail EXCEPT !.len = h.val]
           ELSE pc' = "levels" /\ dec' = [dec EXCEPT !.len = h.val]
    /\ UNCHANGED <<overflow_checks, self, op, arg, ret>>

\* levels, and the reserved encoding that panics
DecodeLevels ==
    /\ pc = "levels"
    /\ LET o == ones(dec.len)
           levels == IF IsDyn(o) THEN zero_extend(o, 6) ELSE Panic
       IN  IF ~IsDyn(levels)
           THEN pc' = "panicked" /\ dec' = Fail
           ELSE IF dec.immediate /\ Of(bitand(dec.imms, levels)) = Of(levels)
           THEN pc' = "panicked" /\ dec' = [Fail EXCEPT !.levels = Of(levels)]
           ELSE pc' = "fields" /\ dec' = [dec EXCEPT !.levels = Of(levels)]
    /\ UNCHANGED <<overflow_checks, self, op, arg, ret>>

\* s, r, diff, esize and d
DecodeFields ==
    /\ pc = "fields"
    /\ LET s == bitand(dec.imms, dec.levels)
           r == bitand(dec.immr, dec.levels)
           diff == sub(s, r)
           esize == Shl8(1, dec.len)
           o == ones(dec.len)
           d == IF IsDyn(diff) /\ IsDyn(o) THEN bitand(diff, o) ELSE Panic
       IN  IF ~IsDyn(d)
           THEN pc' = "panicked" /\ dec' = Fail
           ELSE pc' = "elems"
                /\ dec' = [dec EXCEPT !.s = Of(s), !.r = Of(r), !.diff = Of(diff),
                                       !.esize = esize, !.d = Of(d)]
    /\ UNCHANGED <<overflow_checks, self, op, arg, ret>>

\* welem and telem
DecodeElems ==
    /\ pc = "elems"
    /\ LET ow == ones(u8_from(dec.s).val + 1)
           welem == IF IsDyn(ow) THEN zero_extend(ow, dec.esize) ELSE Panic
           ot == ones(u8_from(dec.r).val + 1)
           telem == IF IsDyn(ot) THEN zero_extend(ot, dec.esize) ELSE Panic
       IN  IF ~IsDyn(welem) \/ ~IsDyn(telem)
           THEN pc' = "panicked" /\ dec' = Fail
           ELSE pc' = "masks"
                /\ dec' = [dec EXCEPT !.welem = Of(welem), !.telem = Of(telem)]
    /\ UNCHANGED <<overflow_checks, self, op, arg, ret>>

\* wmask and tmask
DecodeMasks ==
    /\ pc = "masks"
    /\ LET rot == rotate_right(dec.welem, u8_from(dec.r).val)
           wmask == IF IsDyn(rot) THEN replicate(rot, dec.m \div dec.esize) ELSE Panic
           tmask == replicate(dec.telem, dec.m \div dec.esize)
       IN  IF wmask.kind # "u64" \/ tmask.kind # "u64"
           THEN pc' = "panicked" /\ dec' = Fail
           ELSE pc' = "done"
                /\ dec' = [dec EXCEPT !.wmask = wmask.word, !.tmask = tmask.word]
    /\ UNCHANGED <<overflow_checks, self, op, arg, ret>>

InitDecode ==
    /\ overflow_checks \in BOOLEAN
    /\ self = NoValue
    /\ op = "idle"
    /\ arg = NoValue
    /\ ret = Nothing
    /\ pc = "len"
    /\ \E n \in 0..1, x \in 0..63, y \in 0..63, i \in BOOLEAN, m \in RegSizes :
          dec = [imm_n |-> Of(new(n, 1)), imms |-> Of(new(x, 6)),
                 immr |-> Of(new(y, 6)), immediate |-> i, m |-> m,
                 len |-> 0, levels |-> NoValue, s |-> NoValue, r |-> NoValue,
                 diff |-> NoValue, esize |-> 0, d |-> NoValue,
                 welem |-> NoValue, telem |-> NoValue,
                 wmask |-> {}, tmask |-> {}, failed |-> FALSE]

NextDecode ==
    \/ DecodeLen
    \/ DecodeLevels
    \/ DecodeFields
    \/ DecodeElems
    \/ DecodeMasks

SpecDecode == InitDecode /\ [][NextDecode]_vars

\* ============================================================== claims
Valid(x) == x.bits \in 1..8 /\ x.val < Pow2(x.bits)
Bit(n, i) == (n \div Pow2(i)) % 2

\* C1: every Dynamic a call returns has a width in [1, 8].
WidthInvariant == IsDyn(ret) => ret.bits \in 1..8

\* C2: every Dynamic a call returns has a magnitude below 2^width.
MagnitudeInvariant == IsDyn(ret) => ret.val < Pow2(ret.bits)

\* C2 witness: | of a narrower value into a wider one, both contributing bits.
MagnitudeWitness ==
    /\ op = "bitor" /\ IsDyn(ret)
    /\ self.bits < arg.bits
    /\ ret.val # self.val /\ ret.val # arg.val

\* C3: new(v, w) returns (v, w) exactly when 1 <= w <= 8 and v <= 2^w - 1,
\* and fails otherwise.
NewTotality ==
    op = "new" =>
        IF arg.bits \in 1..8 /\ arg.val <= Pow2(arg.bits) - 1
        THEN ret = Dyn(arg.val, arg.bits)
        ELSE ret = Panic

\* C3 witness: a width in range, a magnitude one bit too wide.
NewWitness ==
    op = "new" /\ arg.bits \in 1..7 /\ arg.val = Pow2(arg.bits) /\ ret = Panic

\* C4: for 1 <= w <= 8, truncate(v, w) returns (v mod 2^w, w).
TruncateMasks ==
    (op = "truncate" /\ arg.bits \in 1..8) =>
        ret = Dyn(arg.val % Pow2(arg.bits), arg.bits)

\* C4 witness: a truncation that erased bits and kept others.
TruncateWitness ==
    /\ op = "truncate" /\ IsDyn(ret)
    /\ arg.val >= Pow2(arg.bits) /\ ret.val > 0

\* the magnitude sign extension of (v, w) to n bits should have
SignExtended(v, w, n) ==
    IF Bit(v, w - 1) = 1 THEN v + Pow2(n) - Pow2(w) ELSE v

\* C5: sign_extend(n) of a valid (v, w) with w <= n <= 8 returns the n-bit
\* value that repeats bit w-1 of v in bits w..n-1.
SignExtendCorrect ==
    (op = "sign_extend" /\ Valid(self) /\ self.bits <= arg.bits /\ arg.bits <= 8) =>
        ret = Dyn(SignExtended(self.val, self.bits, arg.bits), arg.bits)

\* C6: replicate fails when count * width exceeds 64.
ReplicateOverflowFails ==
    (op = "replicate" /\ Valid(self) /\ arg.val * self.bits > 64) => ret = Panic

\* C7: rotate_right(a) of a valid (v, w) returns the w-bit value whose bit i
\* is bit (i + a) mod w of v.
RotateCorrect ==
    (op = "rotate_right" /\ Valid(self)) =>
        /\ IsDyn(ret)
        /\ ret.bits = self.bits
        /\ ret.val < Pow2(self.bits)
        /\ \A i \in 0..(self.bits - 1) :
              Bit(ret.val, i) = Bit(self.val, (i + arg.val) % self.bits)

\* C7 witness: a rotation inside a field narrower than the byte that moved bits.
RotateWitness ==
    /\ op = "rotate_right" /\ IsDyn(ret)
    /\ self.bits < 8 /\ arg.val > self.bits
    /\ ret.val # self.val

\* C8: replicate(value, c) with c >= 1 and c * w <= 64 is v tiled c times.
ReplicateTiles ==
    (op = "replicate" /\ Valid(self) /\ arg.val >= 1 /\ arg.val * self.bits <= 64) =>
        ret = Word({i * self.bits + j : i \in 0..(arg.val - 1), j \in BitsOf(self.val)})

\* C8 witness: 0b1010 (4 bits) three times is 0b1010_1010_1010.
ReplicateWitness ==
    /\ op = "replicate" /\ self = D(10, 4) /\ arg.val = 3
    /\ ret = Word({1, 3, 5, 7, 9, 11})

\* C9: a.concat(b) of valid values returns (va * 2^wb + vb, wa + wb) when
\* wa + wb <= 8 and fails otherwise.
ConcatCorrect ==
    (op = "concat" /\ Valid(self) /\ Valid(arg)) =>
        IF self.bits + arg.bits <= 8
        THEN ret = Dyn(self.val * Pow2(arg.bits) + arg.val, self.bits + arg.bits)
        ELSE ret = Panic

\* C9 witness: a concatenation filling the byte, both sides non-zero.
ConcatWitness ==
    /\ op = "concat" /\ IsDyn(ret)
    /\ self.bits + arg.bits = 8
    /\ self.val > 0 /\ arg.val > 0

\* the arguments of the decode test
TestInput ==
    /\ dec.imm_n = D(0, 1)
    /\ dec.imms = D(48, 6)
    /\ dec.immr = D(1, 6)
    /\ dec.immediate
    /\ dec.m = 64

\* C10: the decode of the test's arguments never panics and ends with the
\* working mask 0x8080808080808080.
DecodeTest ==
    TestInput =>
        /\ pc # "panicked"
        /\ pc = "done" => dec.wmask = {8 * i + 7 : i \in 0..7}

\* C10 witness: the decode of the test's arguments has finished.
DecodeWitness == TestInput /\ pc = "done"
====
